---- MODULE Spec2Model ----
(***************************************************************************)
(* rustybar (src/src/main.rs): the anchor-relative window bounds, the hex  *)
(* colour parser with its premultiplied accessors, and main's startup and  *)
(* event loop.                                                             *)
(*                                                                         *)
(* Numbers.  f64 pixel quantities are modelled by integers (on which f64   *)
(* arithmetic is exact).  f32 colour values are modelled by exact          *)
(* fractions <<numerator, denominator>>; float rounding is not modelled.   *)
(*                                                                         *)
(* Strings.  A &str is a sequence of characters; Rust indexes and slices   *)
(* it by UTF-8 byte offsets, so every string is encoded to its bytes       *)
(* before len() and the [lo..hi] slices are taken.                         *)
(***************************************************************************)
EXTENDS Integers, Sequences, FiniteSets, TLC

VARIABLES
    hex_code,       \* the text handed to Color::from_str
    parsed,         \* what Color::from_str did with it (NotRun before the call)
    geo,            \* the arguments of compute_window_bounds
    bounds,         \* its result ((position), (size)), NotRun before the call
    pc,             \* where main, or the function under test, stands
    monitor,        \* the primary monitor's logical size, or NoMonitor
    window,         \* the native window: created, position, size
    control_flow,   \* the event loop's ControlFlow
    frames,         \* frames finished so far (counted up to MaxFrames)
    cleared         \* the four values of the last clear_color call

vars ==
    <<hex_code, parsed, geo, bounds, pc, monitor, window, control_flow, frames, cleared>>

\* ------------------------------------------------------------------ bounds
MaxLen ==
    10

MaxEdits ==
    2

MaxConfigEdits ==
    1

MaxExtent ==
    3

MaxGap ==
    1

MaxSize ==
    2

MaxFrames ==
    2

\* ------------------------------------------------------------- characters
\* The alphabet of the inputs: '#', hex digits of the three kinds (digit,
\* lower case, upper case), a non-hex letter, the two sign characters, and one
\* character that takes two bytes in UTF-8 (U+00E9).
EAcute ==
    "U+00E9"

Chars ==
    {"#", "0", "1", "f", "A", "z", "+", "-", EAcute}

\* The UTF-8 bytes of a character; "C3" is a lead byte, "A9" a continuation byte.
Utf8(c) ==
    IF c = EAcute THEN <<"C3", "A9">> ELSE <<c>>

RECURSIVE Encode(_)
Encode(s) ==
    IF s = <<>> THEN <<>> ELSE Utf8(Head(s)) \o Encode(Tail(s))

\* str::is_char_boundary on the byte sequence b, for a 0-based byte index i.
IsCharBoundary(b, i) ==
    \/ i = 0
    \/ i = Len(b)
    \/ (i < Len(b) /\ b[i + 1] # "A9")

\* &s[lo..hi] returns (does not panic) exactly when this holds.
SliceOk(b, lo, hi) ==
    /\ lo <= hi
    /\ hi <= Len(b)
    /\ IsCharBoundary(b, lo)
    /\ IsCharBoundary(b, hi)

Slice(b, lo, hi) ==
    SubSeq(b, lo + 1, hi)

\* char::to_digit(16) on one byte: the digit's value, or -1 for None.
ToDigit(byte) ==
    CASE byte = "0" -> 0
      [] byte = "1" -> 1
      [] byte = "f" -> 15
      [] byte = "A" -> 10
      [] OTHER -> -1

ParseErr ==
    -1

RECURSIVE Accumulate(_, _)
\* The digit loop of from_str_radix: result * 16 + digit, with the checked
\* arithmetic of u8 (a value above 255 is PosOverflow, an Err).
Accumulate(digits, acc) ==
    IF digits = <<>> THEN acc
    ELSE LET d == ToDigit(Head(digits))
             nxt == acc * 16 + d
         IN  IF d = -1 \/ nxt > 255 THEN ParseErr
             ELSE Accumulate(Tail(digits), nxt)

\* u8::from_str_radix(src, 16): the byte, or ParseErr for Err(ParseIntError).
\* An empty source is an Err; a lone sign is an Err; one leading '+' is
\* skipped; '-' is not a sign of an unsigned type and is read as a digit.
FromStrRadix16(src) ==
    IF src = <<>> THEN ParseErr
    ELSE IF Len(src) = 1 /\ src[1] \in {"+", "-"} THEN ParseErr
    ELSE IF src[1] = "+" THEN Accumulate(Tail(src), 0)
    ELSE Accumulate(src, 0)

\* ---------------------------------------------------------------- Color
\* An f32 as an exact fraction <<numerator, denominator>> in lowest terms,
\* numerator >= 0, denominator > 0; two values are equal exactly when their
\* pairs are.
RECURSIVE Gcd(_, _)
Gcd(x, y) ==
    IF y = 0 THEN x ELSE Gcd(y, x % y)

Lowest(n, d) ==
    <<n \div Gcd(n, d), d \div Gcd(n, d)>>

F32Div(x, y) ==
    Lowest(x, y)

F32Mul(p, q) ==
    Lowest(p[1] * q[1], p[2] * q[2])

F32Eq(p, q) ==
    Lowest(p[1], p[2]) = Lowest(q[1], q[2])

F32Le(p, q) ==
    p[1] * q[2] <= q[1] * p[2]

F32One ==
    <<1, 1>>

F32Zero ==
    <<0, 1>>

\* struct Color { r: u8, g: u8, b: u8, a: f32 }
Color(r, g, b, a) ==
    [r |-> r, g |-> g, b |-> b, a |-> a]

NoColor ==
    Color(0, 0, 0, F32Zero)

\* The ways a call of Color::from_str ends: Ok(Color), Err(ColorParseError),
\* Err(ParseIntError), or a panic (an unwrap of None, a slice out of range or
\* off a character boundary).
Ok(c) ==
    [kind |-> "Ok", color |-> c]

Err(e) ==
    [kind |-> e, color |-> NoColor]

Panic ==
    [kind |-> "panic", color |-> NoColor]

\* Mutant: the alpha segment runs to the end of the text, not to offset 9.
ParseAlpha_ToEnd(b, r, g, bl) ==
    IF Len(b) > 7
    THEN IF ~SliceOk(b, 7, Len(b)) THEN Panic
         ELSE LET aa == FromStrRadix16(Slice(b, 7, Len(b)))
              IN  IF aa = ParseErr THEN Err("ParseIntError")
                  ELSE Ok(Color(r, g, bl, F32Div(aa, 255)))
    ELSE Ok(Color(r, g, bl, F32One))

\* The alpha segment, read once r, g and b are decoded.
ParseAlpha(b, r, g, bl) ==
    IF Len(b) > 7
    THEN IF ~SliceOk(b, 7, 9) THEN Panic
         ELSE LET aa == FromStrRadix16(Slice(b, 7, 9))
              IN  IF aa = ParseErr THEN Err("ParseIntError")
                  ELSE Ok(Color(r, g, bl, F32Div(aa, 255)))
    ELSE Ok(Color(r, g, bl, F32One))

\* The b segment, then alpha.
ParseBlue(b, r, g) ==
    IF ~SliceOk(b, 5, 7) THEN Panic
    ELSE LET bl == FromStrRadix16(Slice(b, 5, 7))
         IN  IF bl = ParseErr THEN Err("ParseIntError")
             ELSE ParseAlpha(b, r, g, bl)

\* The g segment, then the rest.
ParseGreen(b, r) ==
    IF ~SliceOk(b, 3, 5) THEN Panic
    ELSE LET g == FromStrRadix16(Slice(b, 3, 5))
         IN  IF g = ParseErr THEN Err("ParseIntError")
             ELSE ParseBlue(b, r, g)

\* Color::from_str(hex_code), hex_code a sequence of characters.
from_str(s) ==
    LET b == Encode(s)
    IN  IF s = <<>> THEN Panic
        ELSE IF s[1] # "#" THEN Err("ColorParseError")
        ELSE IF ~SliceOk(b, 1, 3) THEN Panic
        ELSE LET r == FromStrRadix16(Slice(b, 1, 3))
             IN  IF r = ParseErr THEN Err("ParseIntError")
                 ELSE ParseGreen(b, r)

\* Mutant: the channel is not multiplied by alpha.
gl_Straight(self, color) ==
    F32Div(color, 255)

\* Color::gl: (color as f32 / 255.0) * self.a
gl(self, color) ==
    F32Mul(F32Div(color, 255), self.a)

gl_red(self) ==
    gl(self, self.r)

gl_green(self) ==
    gl(self, self.g)

gl_blue(self) ==
    gl(self, self.b)

gl_alpha(self) ==
    self.a

\* The state of `parsed` before Color::from_str is called.
NotRun ==
    [kind |-> "NotRun", color |-> NoColor]

\* ------------------------------------------------------ window geometry
Anchor ==
    {"Top", "Bottom", "Left", "Right"}

\* A Vector2 (x.0, x.1) is the tuple <<x[1], x[2]>>.
\* Mutant: the Right anchor steps back by the near margin, not the far one.
position_x_NearMargin(desktop_size, anchor, gap_h, size) ==
    IF anchor \in {"Top", "Bottom", "Left"} THEN gap_h[1]
    ELSE desktop_size[1] - gap_h[1] - size

\* let position_x = match anchor { .. }
position_x(desktop_size, anchor, gap_h, size) ==
    IF anchor \in {"Top", "Bottom", "Left"} THEN gap_h[1]
    ELSE desktop_size[1] - gap_h[2] - size

\* Mutant: the Bottom anchor does not step back by the thickness.
position_y_NoSize(desktop_size, anchor, gap_v, size) ==
    IF anchor = "Bottom" THEN desktop_size[2] - gap_v[2]
    ELSE gap_v[1]

\* let position_y = match anchor { .. }
position_y(desktop_size, anchor, gap_v, size) ==
    IF anchor = "Bottom" THEN desktop_size[2] - gap_v[2] - size
    ELSE gap_v[1]

\* Mutant: the full span of Left and Right leaves out the far margin.
size_y_NoFarMargin(desktop_size, anchor, gap_v, size) ==
    IF anchor \in {"Top", "Bottom"} THEN size
    ELSE desktop_size[2] - gap_v[1]

\* let size_y = match anchor { .. }
size_y(desktop_size, anchor, gap_v, size) ==
    IF anchor \in {"Top", "Bottom"} THEN size
    ELSE desktop_size[2] - gap_v[1] - gap_v[2]

\* let size_x = match anchor { .. }
size_x(desktop_size, anchor, gap_h, size) ==
    IF anchor \in {"Top", "Bottom"} THEN desktop_size[1] - gap_h[1] - gap_h[2]
    ELSE size

\* compute_window_bounds: ((position_x, position_y), (size_x, size_y)).
compute_window_bounds(desktop_size, anchor, gap_v, gap_h, size) ==
    <<<<position_x(desktop_size, anchor, gap_h, size),
        position_y(desktop_size, anchor, gap_v, size)>>,
      <<size_x(desktop_size, anchor, gap_h, size),
        size_y(desktop_size, anchor, gap_v, size)>>>>

Args(d, an, gv, gh, sz) ==
    [desktop_size |-> d, anchor |-> an, gap_v |-> gv, gap_h |-> gh, size |-> sz]

NoArgs ==
    Args(<<0, 0>>, "Right", <<0, 0>>, <<0, 0>>, 0)

NoBounds ==
    <<<<0, 0>>, <<0, 0>>>>

NoMonitor ==
    [present |-> FALSE, size |-> <<0, 0>>]

NoWindow ==
    [created |-> FALSE, position |-> <<0, 0>>, size |-> <<0, 0>>]

NoClear ==
    <<F32Zero, F32Zero, F32Zero, F32Zero>>

\* ----------------------------------------------------------------- inputs
\* The background literal of main, "#00ff0001".
Background ==
    <<"#", "0", "0", "f", "f", "0", "0", "0", "1">>

BaseChar(i) ==
    IF i <= Len(Background) THEN Background[i] ELSE "0"

\* The texts tried: the literal cut or continued to n characters, n up to
\* MaxLen, with at most k of its characters replaced by any character.
Edited(n, E, f) ==
    [i \in 1..n |-> IF i \in E THEN f[i] ELSE BaseChar(i)]

WithinEdits(s, k) ==
    \E n \in 0..MaxLen :
        \E E \in SUBSET (1..n) :
            /\ Cardinality(E) <= k
            /\ \E f \in [E -> Chars] : s = Edited(n, E, f)

\* The texts from_str is called with on its own.
IsInput(s) ==
    WithinEdits(s, MaxEdits)

\* The texts main is run with as its background.
IsBackground(s) ==
    WithinEdits(s, MaxConfigEdits)

\* -------------------------------------------- Color::from_str on its own
InitParse ==
    /\ IsInput(hex_code)
    /\ parsed = NotRun
    /\ pc = "call"
    /\ geo = NoArgs
    /\ bounds = NoBounds
    /\ monitor = NoMonitor
    /\ window = NoWindow
    /\ control_flow = "Poll"
    /\ frames = 0
    /\ cleared = NoClear

CallFromStr ==
    /\ pc = "call"
    /\ parsed' = from_str(hex_code)
    /\ pc' = "returned"
    /\ UNCHANGED <<hex_code, geo, bounds, monitor, window, control_flow, frames, cleared>>

NextParse ==
    CallFromStr

SpecParse ==
    InitParse /\ [][NextParse]_vars

\* --------------------------------------- compute_window_bounds on its own
Extents ==
    0..MaxExtent

Gaps ==
    (0 - MaxGap)..MaxGap

Sizes ==
    (0 - MaxSize)..MaxSize

InitBounds ==
    /\ \E w \in Extents, h \in Extents, an \in Anchor, sz \in Sizes :
           \E t \in Gaps, b \in Gaps, l \in Gaps, r \in Gaps :
               geo = Args(<<w, h>>, an, <<t, b>>, <<l, r>>, sz)
    /\ bounds = NoBounds
    /\ pc = "call"
    /\ hex_code = <<>>
    /\ parsed = NotRun
    /\ monitor = NoMonitor
    /\ window = NoWindow
    /\ control_flow = "Poll"
    /\ frames = 0
    /\ cleared = NoClear

CallComputeWindowBounds ==
    /\ pc = "call"
    /\ bounds' = compute_window_bounds(geo.desktop_size, geo.anchor, geo.gap_v, geo.gap_h, geo.size)
    /\ pc' = "returned"
    /\ UNCHANGED <<hex_code, parsed, geo, monitor, window, control_flow, frames, cleared>>

NextBounds ==
    CallComputeWindowBounds

SpecBounds ==
    InitBounds /\ [][NextBounds]_vars

\* ------------------------------------------------------------------ main
\* What primary_monitor() may give: no monitor, or a monitor of a logical size.
Monitors ==
    {NoMonitor, [present |-> TRUE, size |-> <<1000, 800>>]}

\* Where the window system may put a window that was built without a position.
WMPositions ==
    {<<0, 0>>, <<900, 0>>}

\* The events the loop hands to the closure while it runs.
Events ==
    {"CloseRequested", "OtherWindowEvent", "OtherEvent"}

Init ==
    /\ pc = "monitor"
    /\ monitor \in Monitors
    /\ IsBackground(hex_code)
    /\ parsed = NotRun
    /\ geo = NoArgs
    /\ bounds = NoBounds
    /\ window = NoWindow
    /\ control_flow = "Poll"
    /\ frames = 0
    /\ cleared = NoClear

\* primary_monitor().unwrap(): a panic without a monitor.
QueryMonitor ==
    /\ pc = "monitor"
    /\ pc' = IF monitor.present THEN "bounds" ELSE "aborted"
    /\ UNCHANGED <<hex_code, parsed, geo, bounds, monitor, window, control_flow, frames, cleared>>

\* let (pos, size) = compute_window_bounds(.., Anchor::Right, (0,0), (0,0), 100.0)
ComputeBounds ==
    /\ pc = "bounds"
    /\ geo' = Args(monitor.size, "Right", <<0, 0>>, <<0, 0>>, 100)
    /\ bounds' = compute_window_bounds(geo'.desktop_size, geo'.anchor, geo'.gap_v, geo'.gap_h, geo'.size)
    /\ pc' = "window"
    /\ UNCHANGED <<hex_code, parsed, monitor, window, control_flow, frames, cleared>>

\* WindowBuilder .. with_inner_size(size); Display::new: the window exists, of
\* the computed size, at a position the builder was not given.
CreateWindow ==
    /\ pc = "window"
    /\ \E p \in WMPositions :
           window' = [created |-> TRUE, position |-> p, size |-> bounds[2]]
    /\ pc' = "place"
    /\ UNCHANGED <<hex_code, parsed, geo, bounds, monitor, control_flow, frames, cleared>>

\* display.gl_window().window().set_outer_position(pos)
SetOuterPosition ==
    /\ pc = "place"
    /\ window' = [window EXCEPT !.position = bounds[1]]
    /\ pc' = "parse"
    /\ UNCHANGED <<hex_code, parsed, geo, bounds, monitor, control_flow, frames, cleared>>

\* Mutant: the result of from_str is not unwrapped; startup goes on.
ParseBackground_NoUnwrap ==
    /\ pc = "parse"
    /\ parsed' = from_str(hex_code)
    /\ pc' = "setup"
    /\ UNCHANGED <<hex_code, geo, bounds, monitor, window, control_flow, frames, cleared>>

\* let background = Color::from_str(..).unwrap(): an Err, like a panic inside
\* from_str, ends the process.
ParseBackground ==
    /\ pc = "parse"
    /\ parsed' = from_str(hex_code)
    /\ pc' = IF parsed'.kind = "Ok" THEN "setup" ELSE "aborted"
    /\ UNCHANGED <<hex_code, geo, bounds, monitor, window, control_flow, frames, cleared>>

\* The vertex buffer, the matrices, the uniforms and the shader program.
SetupDraw ==
    /\ pc = "setup"
    /\ pc' = "loop"
    /\ UNCHANGED <<hex_code, parsed, geo, bounds, monitor, window, control_flow, frames, cleared>>

\* What one call of the closure does to the surface: clear_color with the four
\* accessors of background, draw, finish.
DrawFrame ==
    /\ cleared' = <<gl_red(parsed.color), gl_green(parsed.color),
                    gl_blue(parsed.color), gl_alpha(parsed.color)>>
    /\ frames' = IF frames < MaxFrames THEN frames + 1 ELSE frames

\* Mutant: the closure places the window again on every event, below the
\* position computed at startup.
HandleEvent_Replaces ==
    /\ pc = "loop"
    /\ \E ev \in Events :
           /\ DrawFrame
           /\ control_flow' = IF ev = "CloseRequested" THEN "Exit" ELSE "Wait"
           /\ pc' = IF ev = "CloseRequested" THEN "closing" ELSE "loop"
    /\ window' = [window EXCEPT !.position = <<bounds[1][1], bounds[1][2] + frames + 1>>]
    /\ UNCHANGED <<hex_code, parsed, geo, bounds, monitor>>

\* One call of the closure with an event of the running loop.
HandleEvent ==
    /\ pc = "loop"
    /\ \E ev \in Events :
           /\ DrawFrame
           /\ control_flow' = IF ev = "CloseRequested" THEN "Exit" ELSE "Wait"
           /\ pc' = IF ev = "CloseRequested" THEN "closing" ELSE "loop"
    /\ UNCHANGED <<hex_code, parsed, geo, bounds, monitor, window>>

\* After Exit the loop calls the closure a last time (LoopDestroyed) and the
\* process ends; what the closure writes to control_flow is no longer read.
HandleLoopDestroyed ==
    /\ pc = "closing"
    /\ DrawFrame
    /\ pc' = "exited"
    /\ UNCHANGED <<hex_code, parsed, geo, bounds, monitor, window, control_flow>>

Next ==
    \/ QueryMonitor
    \/ ComputeBounds
    \/ CreateWindow
    \/ SetOuterPosition
    \/ ParseBackground
    \/ SetupDraw
    \/ HandleEvent
    \/ HandleLoopDestroyed

Spec ==
    Init /\ [][Next]_vars

\* =============================================================== claims
\* What the claims read off a state.
Position ==
    bounds[1]

Size ==
    bounds[2]

Horizontal ==
    geo.anchor \in {"Top", "Bottom"}

\* C5: for every anchor the returned size has the thickness `size` on the
\* thick axis (height for Top/Bottom, width for Left/Right) and, on the other
\* axis, the desktop extent minus the near and the far margin of that axis.
C5_SizeComponents ==
    pc = "returned" =>
        IF Horizontal
        THEN /\ Size[2] = geo.size
             /\ Size[1] = geo.desktop_size[1] - geo.gap_h[1] - geo.gap_h[2]
        ELSE /\ Size[1] = geo.size
             /\ Size[2] = geo.desktop_size[2] - geo.gap_v[1] - geo.gap_v[2]

C5_Witness ==
    /\ pc = "returned"
    /\ geo.anchor = "Left"
    /\ geo.desktop_size = <<3, 3>>
    /\ geo.gap_v = <<1, 1>>
    /\ geo.size = 2
    /\ Size = <<2, 1>>

\* C6: for Right, position.x + size.width + gap_h.right = desktop.width; for
\* Bottom, position.y + size.height + gap_v.bottom = desktop.height.
C6_FarEdge ==
    pc = "returned" =>
        /\ geo.anchor = "Right" =>
               Position[1] + Size[1] + geo.gap_h[2] = geo.desktop_size[1]
        /\ geo.anchor = "Bottom" =>
               Position[2] + Size[2] + geo.gap_v[2] = geo.desktop_size[2]

C6_Witness ==
    /\ pc = "returned"
    /\ geo.anchor = "Right"
    /\ geo.desktop_size[1] = 3
    /\ geo.gap_h = <<0, 1>>
    /\ geo.size = 1
    /\ Position[1] = 1

\* The precondition of C7: margins and thickness are not negative, the two
\* margins of each axis fit in the desktop, and on the thick axis the margins
\* and the thickness together fit in the desktop.
Consistent ==
    /\ geo.gap_v[1] >= 0 /\ geo.gap_v[2] >= 0
    /\ geo.gap_h[1] >= 0 /\ geo.gap_h[2] >= 0
    /\ geo.size >= 0
    /\ geo.gap_h[1] + geo.gap_h[2] <= geo.desktop_size[1]
    /\ geo.gap_v[1] + geo.gap_v[2] <= geo.desktop_size[2]
    /\ IF Horizontal
       THEN geo.gap_v[1] + geo.gap_v[2] + geo.size <= geo.desktop_size[2]
       ELSE geo.gap_h[1] + geo.gap_h[2] + geo.size <= geo.desktop_size[1]

\* C7: with consistent margins and thickness the rectangle lies inside the
\* desktop, and its width and height are not negative.
C7_InsideDesktop ==
    (pc = "returned" /\ Consistent) =>
        /\ 0 <= Position[1]
        /\ 0 <= Position[2]
        /\ Position[1] + Size[1] <= geo.desktop_size[1]
        /\ Position[2] + Size[2] <= geo.desktop_size[2]
        /\ Size[1] >= 0
        /\ Size[2] >= 0

C7_Witness ==
    /\ pc = "returned"
    /\ Consistent
    /\ geo.anchor = "Bottom"
    /\ geo.desktop_size = <<3, 3>>
    /\ geo.gap_v = <<1, 1>>
    /\ geo.gap_h = <<1, 1>>
    /\ geo.size = 1
    /\ Position = <<1, 1>>
    /\ Size = <<1, 1>>

\* ----------------------------------------------------- Color::from_str
\* The hexadecimal digits 0-9, a-f, A-F among Chars, and their values.
HexChars ==
    {"0", "1", "f", "A"}

HexValue(c) ==
    CASE c = "0" -> 0 [] c = "1" -> 1 [] c = "A" -> 10 [] c = "f" -> 15

\* The byte written by the two characters of s at 1-based places i, i + 1.
ByteAt(s, i) ==
    16 * HexValue(s[i]) + HexValue(s[i + 1])

Returned ==
    pc = "returned"

StartsWithHash ==
    Len(hex_code) > 0 /\ hex_code[1] = "#"

\* len() of the text: its length in bytes.
ByteLen ==
    Len(Encode(hex_code))

\* C1: every text whose first character is not '#', the empty text included,
\* makes from_str return the ColorParseError error value.
C1_NoHashIsColorParseError ==
    (Returned /\ ~StartsWithHash) => parsed.kind = "ColorParseError"

\* C2: every text that begins with '#' and is too short to slice (length 1 to
\* 6, or length 8) makes from_str return the numeric-parse error value.
C2_TooShortIsParseIntError ==
    (Returned /\ StartsWithHash /\ ByteLen \in (1..6) \cup {8}) =>
        parsed.kind = "ParseIntError"

\* The bytes from_str reads as digits: offsets 1 to 6, and 7 to 8 when the
\* length is above 7 (1-based places 2..7 and 8..9 of the bytes).
ConsumedPlaces ==
    IF ByteLen > 7 THEN 2..9 ELSE 2..7

\* C3: a text that begins with '#', is long enough to slice, and has a
\* character that is no hexadecimal digit in a consumed segment makes from_str
\* return the numeric-parse error value, never Ok.
C3_NonHexIsParseIntError ==
    (/\ Returned
     /\ StartsWithHash
     /\ (ByteLen = 7 \/ ByteLen >= 9)
     /\ \E i \in ConsumedPlaces : Encode(hex_code)[i] \notin HexChars) =>
        parsed.kind = "ParseIntError"

SixHexDigits ==
    /\ StartsWithHash
    /\ Len(hex_code) >= 7
    /\ \A i \in 2..7 : hex_code[i] \in HexChars

\* C4: '#' and six hex digits, of length 7, parse to the three bytes and
\* a = 1; continued by two more hex digits they parse to the three bytes and
\* a = aa / 255, whatever follows offset 8.
C4_ValidParses ==
    (Returned /\ SixHexDigits) =>
        /\ Len(hex_code) = 7 =>
               parsed = Ok(Color(ByteAt(hex_code, 2), ByteAt(hex_code, 4),
                                 ByteAt(hex_code, 6), <<1, 1>>))
        /\ (Len(hex_code) >= 9 /\ hex_code[8] \in HexChars /\ hex_code[9] \in HexChars) =>
               /\ parsed.kind = "Ok"
               /\ parsed.color.r = ByteAt(hex_code, 2)
               /\ parsed.color.g = ByteAt(hex_code, 4)
               /\ parsed.color.b = ByteAt(hex_code, 6)
               /\ F32Eq(parsed.color.a, <<ByteAt(hex_code, 8), 255>>)

\* The nine characters of the literal followed by a character that is no digit.
C4_Witness ==
    /\ Returned
    /\ Len(hex_code) = 10
    /\ SubSeq(hex_code, 1, 9) = Background
    /\ hex_code[10] = "z"
    /\ parsed = Ok(Color(0, 255, 0, <<1, 255>>))

\* ------------------------------------------------ accessors, every frame
\* channel / 255 scaled by a = <<numerator, denominator>>, as a fraction.
Premultiplied(channel, a) ==
    <<channel * a[1], 255 * a[2]>>

InLoop ==
    pc \in {"loop", "closing", "exited"}

\* What each frame's clear_color must be given, from the parsed Color.
ExpectedClear ==
    <<Premultiplied(parsed.color.r, parsed.color.a),
      Premultiplied(parsed.color.g, parsed.color.a),
      Premultiplied(parsed.color.b, parsed.color.a),
      parsed.color.a>>

\* C8: gl_red, gl_green, gl_blue return (channel / 255) * a and gl_alpha
\* returns a; the calls leave the Color as it is, so every frame is cleared
\* with the same four values; each channel value lies between 0 and gl_alpha.
C8_Accessors ==
    /\ [](frames > 0 =>
            /\ \A i \in 1..3 : F32Eq(cleared[i], ExpectedClear[i])
            /\ cleared[4] = parsed.color.a
            /\ \A i \in 1..3 : F32Le(F32Zero, cleared[i]) /\ F32Le(cleared[i], cleared[4]))
    /\ [][InLoop => parsed' = parsed]_vars
    /\ [][frames > 0 => cleared' = cleared]_vars

\* Two frames drawn with the literal's colour: green 255 at alpha 1/255.
C8_Witness ==
    /\ frames >= 2
    /\ parsed.color = Color(0, 255, 0, <<1, 255>>)
    /\ cleared = <<<<0, 1>>, <<1, 255>>, <<0, 1>>, <<1, 255>>>>

\* C9: once the native window exists, no later step changes its position or
\* its size.
C9_NeverMovesAfterCreation ==
    [][window.created => window' = window]_vars

\* The steps of startup up to and including set_outer_position.
Placing ==
    pc \in {"monitor", "bounds", "window", "place"}

\* C9, amended: once the native window exists no step changes its size, and
\* once startup has placed it with set_outer_position no step (of startup or
\* of the event loop) changes its position; that one call puts it at the
\* computed position.
C9_FixedAfterPlacement ==
    /\ [][window.created => window'.size = window.size]_vars
    /\ [][~Placing => window' = window]_vars
    /\ []((window.created /\ ~Placing) =>
            (window.position = bounds[1] /\ window.size = bounds[2]))

\* A frame has been drawn and the window is where startup put it.
C9_Witness ==
    /\ pc = "loop"
    /\ frames >= 2
    /\ window = [created |-> TRUE, position |-> <<900, 0>>, size |-> <<100, 800>>]

\* C10: the loop runs and a frame is drawn only after from_str returned Ok;
\* when it returns either error value the process is over, with no frame drawn.
C10_FailFast ==
    /\ (pc \in {"setup", "loop", "closing", "exited"} \/ frames > 0 \/ cleared # NoClear) =>
           parsed.kind = "Ok"
    /\ parsed.kind \in {"ColorParseError", "ParseIntError", "panic"} =>
           (pc = "aborted" /\ frames = 0 /\ cleared = NoClear)

\* The numeric-parse error ended startup, the window already placed.
C10_Witness ==
    /\ parsed.kind = "ParseIntError"
    /\ pc = "aborted"
    /\ window.created
    /\ frames = 0
====
